---------------------------- MODULE Spec2Model ----------------------------
(***************************************************************************)
(* Model of app.py, the timeline dashboard: the default-dataset load at    *)
(* import time, the two chained Dash callbacks store_file -> update_graph  *)
(* around the dcc.Store 'file-store', and the pure chart construction      *)
(* generate_event_types / create_timeline.                                 *)
(*                                                                         *)
(* Column names and cell texts are Chinese in the source; they are written *)
(* here in ASCII: "date" = riqi, "category" = shijian leixing,             *)
(* "description" = shijian miaoshu, "important"/"daily"/"holiday" and      *)
(* "desc1".."desc3" are the three rows of the built-in sample.             *)
(***************************************************************************)
EXTENDS Naturals, Sequences, FiniteSets

VARIABLES
    events_xlsx,        \* the optional file events.xlsx on disk
    pc,                 \* "boot", "loaded", "serving", "crashed"; "render"/"rendered" and
                        \* "colours"/"coloured" in the specifications of the pure functions
    default_events_df,  \* the module-level default table (app.py line 22)
    contents,           \* the 'contents' property of upload-data last handed to store_file
    file_store,         \* the 'data' property of dcc.Store 'file-store'
    figure,             \* the 'figure' property of timeline-graph
    store_exc,          \* how the last store_file call ended
    graph_exc,          \* how the last update_graph call ended
    replaced,           \* history: what the last firing of the chain overwrote in file_store
    render_input,       \* input of the render specification: the table given to create_timeline
    idx,                \* input of the colour specification: a pair of ordinal indices
    colours             \* output of the colour specification: their colours

vars == <<events_xlsx, pc, default_events_df, contents, file_store, figure,
          store_exc, graph_exc, replaced, render_input, idx, colours>>

---------------------------------------------------------------------------
(* Bounds of the model. *)

\* longest uploaded sheet, in rows
MaxRows == 2
\* longest table handed to create_timeline in RenderSpec, in rows
MaxRenderRows == 3
\* largest category ordinal in ColourSpec
MaxIndex == 104

---------------------------------------------------------------------------
(* Cells.  A cell is a tagged value: a pandas Timestamp, a text, a missing  *)
(* value as pandas reads it from a sheet (NaN / NaT), or Python's None.    *)

Null == [k |-> "null", v |-> ""]
NoneCell == [k |-> "None", v |-> ""]
IsMissing(c) == c.k \in {"null", "None"}
Ts(d) == [k |-> "Timestamp", v |-> d]
Str(s) == [k |-> "str", v |-> s]

Columns == {"date", "category", "description"}

MkRow(d, c, s) ==
    [col \in Columns |-> IF col = "date" THEN d ELSE IF col = "category" THEN c ELSE s]

\* A DataFrame: its column labels and its rows, each row a dict over the columns.
Frame(cols, rows) == [columns |-> cols, rows |-> rows]

EmptyFrame == Frame({}, <<>>)

\* The built-in 3-row sample of load_default_events.
BuiltinSample ==
    Frame(Columns,
          << MkRow(Ts("2023-01-01"), Str("important"), Str("desc1")),
             MkRow(Ts("2023-05-01"), Str("daily"), Str("desc2")),
             MkRow(Ts("2023-12-25"), Str("holiday"), Str("desc3")) >>)

---------------------------------------------------------------------------
(* pandas and Dash operations used by the code. *)

\* A file's bytes: a workbook holding one sheet, or bytes that are no workbook.
Workbook(sheet) == [ok |-> TRUE, sheet |-> sheet]
CorruptFile == [ok |-> FALSE, sheet |-> EmptyFrame]

\* pd.read_excel: the first sheet as a DataFrame; raises on bytes that are no
\* workbook.  It does not look at which columns the sheet has.
read_excel(file) ==
    IF file.ok THEN [exc |-> "none", df |-> file.sheet]
    ELSE [exc |-> "Exception", df |-> EmptyFrame]

\* The dtype of the date column is datetime64 when every cell is a Timestamp
\* or missing and at least one is a Timestamp (an all-missing column is
\* float64, a zero-row column is object, a text column is object).
IsDatetimeColumn(df) ==
    /\ "date" \in df.columns
    /\ \A i \in 1..Len(df.rows) : df.rows[i]["date"].k \in {"Timestamp", "null", "None"}
    /\ \E i \in 1..Len(df.rows) : df.rows[i]["date"].k = "Timestamp"

\* DataFrame.to_dict('records'): one dict per row, keyed by the column labels.
to_dict_records(df) == df.rows

\* The callback's return value as it travels through the dcc.Store: JSON.
\* A Timestamp is written as its ISO text; a missing value as null, which
\* comes back as None.
JsonCell(c) ==
    IF c.k = "Timestamp" THEN Str(c.v \o "T00:00:00")
    ELSE IF c.k = "null" THEN NoneCell
    ELSE c
ToJson(records) ==
    [i \in 1..Len(records) |-> [col \in DOMAIN records[i] |-> JsonCell(records[i][col])]]

\* pd.DataFrame(data) for a list of dicts: the columns are the keys that occur.
DataFrame(data) ==
    Frame(UNION {DOMAIN data[i] : i \in 1..Len(data)}, data)


---------------------------------------------------------------------------
(* generate_event_types and create_timeline. *)

\* Series.unique(): the distinct values in first-seen order.
Unique(s) ==
    LET F[i \in 0..Len(s)] ==
            IF i = 0 THEN <<>>
            ELSE IF \E j \in 1..Len(F[i-1]) : F[i-1][j] = s[i]
                 THEN F[i-1]
                 ELSE Append(F[i-1], s[i])
    IN F[Len(s)]

\* Mutant of ColourOf: the channels are taken modulo 256.
ColourOf_Mod256(i) ==
    [r |-> (i * 70) % 256, g |-> (i * 120) % 256, b |-> (i * 180) % 256, a |-> "0.7"]

\* The rgba colour of the category at ordinal index i.
ColourOf(i) ==
    [r |-> (i * 70) % 255, g |-> (i * 120) % 255, b |-> (i * 180) % 255, a |-> "0.7"]

\* Mutant of LaneOf: lanes are counted from 1.
LaneOf_OneBased(i) == i + 1

\* The lane of the category at ordinal index i.
LaneOf(i) == i

\* Position (from 1) of t in the duplicate-free sequence s.
PosIn(s, t) == CHOOSE j \in 1..Len(s) : s[j] = t

Range(s) == {s[i] : i \in 1..Len(s)}

generate_event_types(events_df) ==
    IF "category" \notin events_df.columns
    THEN [exc |-> "KeyError", event_types |-> <<>>, color_map |-> <<>>, y_position_map |-> <<>>]
    ELSE LET event_types ==
                 Unique([i \in 1..Len(events_df.rows) |-> events_df.rows[i]["category"]])
         IN [exc |-> "none",
             event_types |-> event_types,
             color_map |-> [t \in Range(event_types) |-> ColourOf(PosIn(event_types, t) - 1)],
             y_position_map |-> [t \in Range(event_types) |-> LaneOf(PosIn(event_types, t) - 1)]]

\* Mutant of EventData: rows without a date are dropped from the partition.
EventData_DropNaT(events_df, event_type) ==
    SelectSeq(events_df.rows,
              LAMBDA row : /\ ~IsMissing(event_type)
                           /\ row["category"] = event_type
                           /\ ~IsMissing(row["date"]))

\* events_df[events_df[category] == event_type]: the rows of that category,
\* in row order.  A missing value compares unequal to everything, itself included.
EventData(events_df, event_type) ==
    SelectSeq(events_df.rows,
              LAMBDA row : ~IsMissing(event_type) /\ row["category"] = event_type)

\* Mutant of TextPosition: the alternation starts above the marker.
TextPosition_TopFirst(i) == IF i % 2 = 0 THEN "top center" ELSE "bottom center"

\* The label placement of the marker at partition-local index i (from 0).
TextPosition(i) == IF i % 2 = 0 THEN "bottom center" ELSE "top center"

\* Timestamp.strftime('%m-%d'); NaT formats to a missing value.
MonthDay(c) ==
    IF IsMissing(c) THEN Null
    ELSE IF c.v = "2023-01-01" THEN Str("01-01")
    ELSE IF c.v = "2024-01-01" THEN Str("01-01")
    ELSE IF c.v = "2023-05-01" THEN Str("05-01")
    ELSE Str("12-25")

\* One go.Scatter trace of create_timeline's loop.
Trace(events_df, g, event_type) ==
    LET event_data == EventData(events_df, event_type)
        M == Len(event_data)
    IN [name |-> event_type,
        x |-> [i \in 1..M |-> event_data[i]["date"]],
        y |-> [i \in 1..M |-> g.y_position_map[event_type]],
        text |-> [i \in 1..M |-> MonthDay(event_data[i]["date"])],
        textposition |-> [i \in 1..M |-> TextPosition(i - 1)],
        hovertext |-> [i \in 1..M |-> event_data[i]["description"]],
        color |-> g.color_map[event_type]]

NoFig == [data |-> <<>>, tickvals |-> <<>>, ticktext |-> <<>>]

\* A category column whose cells are all NaN is a float64 column: unique()
\* gives NaN, and a NaN taken from a float64 array is a new object each time,
\* equal to no key of color_map or y_position_map.
NaNKeys(events_df) ==
    /\ events_df.rows # <<>>
    /\ \A i \in 1..Len(events_df.rows) : events_df.rows[i]["category"].k = "null"

\* The exception the loop body raises on its first pass, if any: the date
\* column is read first, then y_position_map, then the .dt accessor of the
\* date column, then the description column.
TraceExc(events_df) ==
    IF "date" \notin events_df.columns THEN "KeyError"
    ELSE IF NaNKeys(events_df) THEN "KeyError"
    ELSE IF ~IsDatetimeColumn(events_df) THEN "AttributeError"
    ELSE IF "description" \notin events_df.columns THEN "KeyError"
    ELSE "none"

create_timeline(events_df) ==
    LET g == generate_event_types(events_df)
        N == Len(g.event_types)
    IN IF g.exc # "none" THEN [exc |-> g.exc, fig |-> NoFig]
       ELSE IF N > 0 /\ TraceExc(events_df) # "none"
       THEN [exc |-> TraceExc(events_df), fig |-> NoFig]
       ELSE [exc |-> "none",
             fig |-> [data |-> [k \in 1..N |-> Trace(events_df, g, g.event_types[k])],
                      tickvals |-> [k \in 1..N |-> g.y_position_map[g.event_types[k]]],
                      ticktext |-> g.event_types]]


---------------------------------------------------------------------------
(* Inputs: the sheets a user may upload and the files events.xlsx may be. *)

\* The rows a sheet may hold: a complete event, an event without a date and
\* an event without a category.
SheetRows ==
    { MkRow(Ts("2023-01-01"), Str("important"), Str("desc1")),
      MkRow(Null, Str("important"), Str("desc1")),
      MkRow(Ts("2023-01-01"), Null, Str("desc1")) }

RowsOver(cols) == {[c \in cols |-> r[c]] : r \in SheetRows}

\* The column sets a sheet may have: all three, one missing, none.
ColumnSets == {Columns} \cup {Columns \ {c} : c \in Columns} \cup {{}}

\* Every sheet with the given columns and at most n rows; a sheet without
\* columns has no rows.
SheetsOver(cols, n) ==
    {Frame(cols, rows) :
        rows \in UNION {[1..m -> RowsOver(cols)] : m \in 0..(IF cols = {} THEN 0 ELSE n)}}

UploadSheets == UNION {SheetsOver(cols, MaxRows) : cols \in ColumnSets}

None == [none |-> TRUE, commas |-> 1, padded |-> TRUE, file |-> CorruptFile]

\* upload-data.contents: "<content-type>;base64,<payload>".  commas counts the
\* commas of the text, padded says whether the payload is well-padded base64.
DataUri(commas, padded, file) ==
    [none |-> FALSE, commas |-> commas, padded |-> padded, file |-> file]

UploadContents ==
    {DataUri(1, TRUE, Workbook(sh)) : sh \in UploadSheets}
    \cup {DataUri(1, TRUE, CorruptFile)}
    \cup {DataUri(0, TRUE, CorruptFile), DataUri(2, TRUE, CorruptFile),
          DataUri(1, FALSE, CorruptFile)}

\* events.xlsx: absent, or a file.
NoFile == [exists |-> FALSE, file |-> CorruptFile]
File(f) == [exists |-> TRUE, file |-> f]

DefaultSheets ==
    { BuiltinSample,
      Frame(Columns, <<>>),
      Frame(Columns, << MkRow(Ts("2023-01-01"), Str("important"), Str("desc1")),
                        MkRow(Ts("2024-01-01"), Str("important"), Str("desc2")) >>),
      Frame(Columns, << MkRow(Null, Null, Str("desc1")) >>),
      Frame({"date", "description"},
            << [col \in {"date", "description"} |->
                    IF col = "date" THEN Ts("2023-05-01") ELSE Str("desc1")] >>) }

DefaultFiles == {NoFile, File(CorruptFile)} \cup {File(Workbook(sh)) : sh \in DefaultSheets}

---------------------------------------------------------------------------
(* The program. *)

\* dcc.Store data: None, or a list of records.
StoreNone == [none |-> TRUE, records |-> <<>>]
StoreData(records) == [none |-> FALSE, records |-> records]

\* timeline-graph.figure: nothing drawn yet, or a figure.
NoFigure == [drawn |-> FALSE, fig |-> NoFig]
Figure(fig) == [drawn |-> TRUE, fig |-> fig]

\* load_default_events(): events.xlsx when it exists (read without a try),
\* the built-in sample otherwise.
load_default_events(xlsx) ==
    IF xlsx.exists THEN read_excel(xlsx.file)
    ELSE [exc |-> "none", df |-> BuiltinSample]

\* Mutant of ParsedReturn: the upload's rows are appended to the default rows.
ParsedReturn_Merge(df) ==
    StoreData(ToJson(to_dict_records(default_events_df) \o to_dict_records(df)))

\* What store_file returns for a sheet that parsed: its records.
ParsedReturn(df) == StoreData(ToJson(to_dict_records(df)))

\* Mutant of FallbackReturn: the store's data is handed back as it is.
FallbackReturn_KeepPrior == file_store

\* What store_file returns when read_excel raised: the default table's records.
FallbackReturn == StoreData(ToJson(to_dict_records(default_events_df)))

\* store_file(contents, filename): split and b64decode run outside the try,
\* read_excel inside it.  exc is "none" (returned None or the parsed records),
\* "caught" (read_excel raised, returned the default records) or the
\* exception that left the callback.
store_file(c) ==
    IF ~c.none
    THEN IF c.commas # 1 THEN [exc |-> "ValueError", ret |-> StoreNone]
         ELSE IF ~c.padded THEN [exc |-> "binascii.Error", ret |-> StoreNone]
         ELSE LET r == read_excel(c.file)
              IN IF r.exc = "none"
                 THEN [exc |-> "none", ret |-> ParsedReturn(r.df)]
                 ELSE [exc |-> "caught", ret |-> FallbackReturn]
    ELSE [exc |-> "none", ret |-> StoreNone]

\* Mutant of GraphTable: without store data the built-in sample is drawn.
GraphTable_Builtin(data) ==
    IF data.none THEN BuiltinSample ELSE DataFrame(data.records)

\* The table update_graph builds from the store's data.
GraphTable(data) ==
    IF data.none THEN default_events_df ELSE DataFrame(data.records)

update_graph(data) == create_timeline(GraphTable(data))

Init ==
    /\ events_xlsx \in DefaultFiles
    /\ pc = "boot"
    /\ default_events_df = EmptyFrame
    /\ contents = None
    /\ file_store = StoreNone
    /\ figure = NoFigure
    /\ store_exc = "not called"
    /\ graph_exc = "not called"
    /\ replaced = "nothing"
    /\ render_input = EmptyFrame
    /\ idx = <<0, 0>>
    /\ colours = <<>>

\* app.py line 22, at import: an exception here ends the process.
LoadDefault ==
    /\ pc = "boot"
    /\ LET r == load_default_events(events_xlsx)
       IN IF r.exc = "none"
          THEN pc' = "loaded" /\ default_events_df' = r.df
          ELSE pc' = "crashed" /\ UNCHANGED default_events_df
    /\ UNCHANGED <<events_xlsx, contents, file_store, figure, store_exc, graph_exc,
                   replaced, render_input, idx, colours>>

\* One firing of the callback chain for upload-data.contents = c: store_file,
\* and when it returns, update_graph on the new store data.  A callback that
\* raises leaves its output as it was.
Fire(c) ==
    LET s == store_file(c)
        g == update_graph(s.ret)
    IN /\ contents' = c
       /\ store_exc' = s.exc
       /\ IF s.exc \in {"none", "caught"}
          THEN /\ file_store' = s.ret
               /\ graph_exc' = g.exc
               /\ figure' = IF g.exc = "none" THEN Figure(g.fig) ELSE figure
          ELSE UNCHANGED <<file_store, graph_exc, figure>>
       /\ replaced' = IF file_store' = file_store THEN "nothing"
                      ELSE IF file_store.none THEN "None"
                      ELSE IF file_store = FallbackReturn THEN "default records"
                      ELSE "uploaded records"

\* The page loads: Dash fires the chain once with contents = None.
PageLoad ==
    /\ pc = "loaded"
    /\ pc' = "serving"
    /\ Fire(None)
    /\ UNCHANGED <<events_xlsx, default_events_df, render_input, idx, colours>>

\* The user uploads a file.
Upload ==
    /\ pc = "serving"
    /\ \E c \in UploadContents : Fire(c)
    /\ UNCHANGED <<events_xlsx, pc, default_events_df, render_input, idx, colours>>

Next == LoadDefault \/ PageLoad \/ Upload

Spec == Init /\ [][Next]_vars


---------------------------------------------------------------------------
(* create_timeline as a function: every table of at most MaxRenderRows     *)
(* rows with the three columns is handed to it once.                       *)

RenderCellsOf(col) ==
    IF col = "date" THEN {Ts("2023-01-01"), Ts("2023-05-01"), Null}
    ELSE IF col = "category" THEN {Str("important"), Str("daily"), Null}
    ELSE {Str("desc1"), Str("desc2")}

RenderRows == {r \in [Columns -> UNION {RenderCellsOf(c) : c \in Columns}] :
                    \A c \in Columns : r[c] \in RenderCellsOf(c)}

RenderTables ==
    {Frame(Columns, rows) : rows \in UNION {[1..m -> RenderRows] : m \in 0..MaxRenderRows}}

RenderInit ==
    /\ render_input \in RenderTables
    /\ pc = "render"
    /\ figure = NoFigure
    /\ graph_exc = "not called"
    /\ events_xlsx = NoFile
    /\ default_events_df = EmptyFrame
    /\ contents = None
    /\ file_store = StoreNone
    /\ store_exc = "not called"
    /\ replaced = "nothing"
    /\ idx = <<0, 0>>
    /\ colours = <<>>

Render ==
    /\ pc = "render"
    /\ pc' = "rendered"
    /\ LET g == create_timeline(render_input)
       IN /\ graph_exc' = g.exc
          /\ figure' = IF g.exc = "none" THEN Figure(g.fig) ELSE figure
    /\ UNCHANGED <<events_xlsx, default_events_df, contents, file_store, store_exc,
                   replaced, render_input, idx, colours>>

RenderNext == Render

RenderSpec == RenderInit /\ [][RenderNext]_vars

---------------------------------------------------------------------------
(* The colour hash as a function of the ordinal index: every pair of       *)
(* indices up to MaxIndex.                                                 *)

ColourInit ==
    /\ idx \in (0..MaxIndex) \X (0..MaxIndex)
    /\ pc = "colours"
    /\ colours = <<>>
    /\ render_input = EmptyFrame
    /\ figure = NoFigure
    /\ graph_exc = "not called"
    /\ events_xlsx = NoFile
    /\ default_events_df = EmptyFrame
    /\ contents = None
    /\ file_store = StoreNone
    /\ store_exc = "not called"
    /\ replaced = "nothing"

Colour ==
    /\ pc = "colours"
    /\ pc' = "coloured"
    /\ colours' = <<ColourOf(idx[1]), ColourOf(idx[2])>>
    /\ UNCHANGED <<events_xlsx, default_events_df, contents, file_store, figure,
                   store_exc, graph_exc, replaced, render_input, idx>>

ColourNext == Colour

ColourSpec == ColourInit /\ [][ColourNext]_vars


---------------------------------------------------------------------------
(* Properties of the upload chain, checked under Spec. *)

\* The records of the table update_graph draws from, in their JSON form.
ActiveRecords == ToJson(to_dict_records(GraphTable(file_store)))

\* The outcome of update_graph on the table rebuilt from a record list.
DrawnFrom(records) == create_timeline(DataFrame(records))

\* update_graph was run on the store's data: its outcome is recorded, and the
\* figure is the one it returned when it returned one.
GraphRanOn(data) ==
    LET g == create_timeline(GraphTable(data))
    IN /\ graph_exc = g.exc
       /\ g.exc = "none" => figure = Figure(g.fig)

C4_StartupNeverFails ==
    /\ pc # "crashed"
    /\ (pc \in {"loaded", "serving"} /\ (~events_xlsx.exists \/ ~events_xlsx.file.ok)) =>
           default_events_df = BuiltinSample

\* A table of events: the three columns, and a date and a category in every row.
IsEventTable(df) ==
    /\ Columns \subseteq df.columns
    /\ \A i \in 1..Len(df.rows) :
          ~IsMissing(df.rows[i]["date"]) /\ ~IsMissing(df.rows[i]["category"])

\* C5 as stated (for a default table that is a table of events): every row of
\* the table handed to the renderer has the three columns with a date and a
\* category, and an uploaded sheet that is no table of events is treated as a
\* parse failure.
C5_EventTableInvariant ==
    (pc = "serving" /\ IsEventTable(default_events_df)) =>
        /\ \A i \in 1..Len(GraphTable(file_store).rows) :
              LET row == GraphTable(file_store).rows[i]
              IN /\ DOMAIN row = Columns
                 /\ ~IsMissing(row["date"])
                 /\ ~IsMissing(row["category"])
        /\ (/\ ~contents.none
            /\ store_exc \in {"none", "caught"}
            /\ contents.file.ok
            /\ ~IsEventTable(contents.file.sheet)) => store_exc = "caught"

\* C6 as stated: an empty table of events is drawn as a chart without series,
\* also when it is an uploaded sheet with the three columns and no rows.
C6_EmptyTableRenders ==
    (/\ pc = "serving"
     /\ store_exc = "none"
     /\ GraphTable(file_store).rows = <<>>
     /\ contents.none => default_events_df.columns = Columns
     /\ ~contents.none => contents.file.sheet.columns = Columns) =>
        /\ graph_exc = "none"
        /\ figure.drawn
        /\ figure.fig.data = <<>>

---------------------------------------------------------------------------
(* Properties of create_timeline, checked under RenderSpec. *)

Rows == render_input.rows
Series == figure.fig.data

\* The distinct category values of the input (a missing value counts as one).
Categories == {Rows[i]["category"] : i \in 1..Len(Rows)}

\* The row at which a category value first occurs.
FirstRow(c) == CHOOSE i \in 1..Len(Rows) :
                   Rows[i]["category"] = c /\ \A j \in 1..(i - 1) : Rows[j]["category"] # c

\* The rows of a category.
RowsOf(c) == {i \in 1..Len(Rows) : Rows[i]["category"] = c}

Rendered == pc = "rendered" /\ graph_exc = "none"

\* C7: a table with N distinct category values is drawn as exactly N series,
\* one per category in first-seen order; series k (from 0) is named after the
\* k-th first-seen category and all its markers have y = k; the tick values
\* are 0..N-1 and the tick texts the category names, in the same order.
C7_OneSeriesPerCategory ==
    Rendered =>
        /\ Len(Series) = Cardinality(Categories)
        /\ {Series[k].name : k \in 1..Len(Series)} = Categories
        /\ \A k, l \in 1..Len(Series) :
              k < l => FirstRow(Series[k].name) < FirstRow(Series[l].name)
        /\ \A k \in 1..Len(Series) :
              /\ \A i \in 1..Len(Series[k].y) : Series[k].y[i] = k - 1
              /\ Len(Series[k].y) = Len(Series[k].x)
              /\ figure.fig.tickvals[k] = k - 1
              /\ figure.fig.ticktext[k] = Series[k].name
        /\ Len(figure.fig.tickvals) = Len(Series)
        /\ Len(figure.fig.ticktext) = Len(Series)

\* Two categories were drawn, the first-seen one not the first alphabetically.
C7_Witness ==
    /\ Rendered
    /\ Len(Series) = 2
    /\ Series[1].name = Str("important")
    /\ Series[2].name = Str("daily")
    /\ Len(Series[2].y) = 2

\* C8: in every series the label of the marker at partition-local index i
\* (from 0) is placed "bottom center" for even i and "top center" for odd i,
\* wherever the event's row is in the table.
C8_LabelsAlternate ==
    Rendered =>
        \A k \in 1..Len(Series) :
            /\ Len(Series[k].textposition) = Len(Series[k].x)
            /\ \A i \in 0..(Len(Series[k].textposition) - 1) :
                  Series[k].textposition[i + 1] =
                      (IF i % 2 = 0 THEN "bottom center" ELSE "top center")

\* A category's second event, at the third row behind another category's
\* event, was labelled above the marker.
C8_Witness ==
    /\ Rendered
    /\ Len(Rows) = 3
    /\ Rows[1]["category"] = Str("daily")
    /\ Rows[2]["category"] = Str("important")
    /\ Rows[3]["category"] = Str("daily")
    /\ Series[1].textposition = <<"bottom center", "top center">>

\* C9: when every event has a category, every event is drawn exactly once:
\* the markers of a category's series are the events of that category in
\* row order, each with x = the event's date and hover text = the event's
\* description, and the markers number as many as the rows.
C9_EveryEventOnce ==
    (Rendered /\ \A i \in 1..Len(Rows) : ~IsMissing(Rows[i]["category"])) =>
        \E at \in [1..Len(Rows) -> (1..Len(Series)) \X (1..Len(Rows))] :
            \* at[i] = <<series, marker>> of row i
            /\ \A i \in 1..Len(Rows) :
                  LET k == at[i][1]
                      m == at[i][2]
                  IN /\ m <= Len(Series[k].x)
                     /\ Series[k].name = Rows[i]["category"]
                     /\ Series[k].x[m] = Rows[i]["date"]
                     /\ Series[k].hovertext[m] = Rows[i]["description"]
                     /\ m = Cardinality({j \in RowsOf(Rows[i]["category"]) : j <= i})
            /\ \A k \in 1..Len(Series) :
                  /\ Len(Series[k].x) = Cardinality(RowsOf(Series[k].name))
                  /\ Len(Series[k].hovertext) = Len(Series[k].x)

\* Three events of two categories, interleaved, one of them without a date.
C9_Witness ==
    /\ Rendered
    /\ Len(Rows) = 3
    /\ Rows[1]["category"] = Str("important")
    /\ Rows[2]["category"] = Str("daily")
    /\ Rows[3]["category"] = Str("important")
    /\ Rows[3]["date"] = Null
    /\ Rows[1]["description"] # Rows[3]["description"]
    /\ Len(Series[1].x) = 2

---------------------------------------------------------------------------
(* Property of the colour hash, checked under ColourSpec. *)

\* C10: the colour of ordinal index i is ((70 i) mod 255, (120 i) mod 255,
\* (180 i) mod 255) with alpha 0.7, every channel within 0..254; two indices
\* have the same colour exactly when they differ by a multiple of 51, so any
\* two different indices below 51 have different colours.
C10_ColourHash ==
    pc = "coloured" =>
        LET i == idx[1]
            j == idx[2]
        IN /\ colours[1] = [r |-> (70 * i) % 255, g |-> (120 * i) % 255,
                            b |-> (180 * i) % 255, a |-> "0.7"]
           /\ {colours[1].r, colours[1].g, colours[1].b} \subseteq 0..254
           /\ (colours[1] = colours[2]) <=> (i % 51 = j % 51)
           /\ (i < 51 /\ j < 51 /\ i # j) => colours[1] # colours[2]

\* Two different indices, 51 apart, were given the same colour.
C10_Witness ==
    /\ pc = "coloured"
    /\ idx = <<1, 52>>
    /\ colours[1] = colours[2]

=============================================================================
